---- MODULE Spec2Model ----
(***************************************************************************)
(* A model of src/bayseg/bayseg.py: the BaySeg sampler (construction, fit, *)
(* one gibbs_sample iteration step by step) and the module-level function  *)
(* define_neighborhood_system.                                             *)
(*                                                                         *)
(* Floating-point quantities are abstracted to small value sets:           *)
(*   - a mean row, a covariance block and beta are single values; the      *)
(*     covariance value 0 stands for a degenerate (singular, non positive  *)
(*     definite or non-finite) matrix, every other value for a symmetric   *)
(*     positive definite one;                                              *)
(*   - an acceptance ratio is nan or a multiple of 1/One, a uniform draw   *)
(*     is a multiple of 1/One in [0, 1).                                   *)
(* Sites and labels are numbered from 0 as in the source; the traces are   *)
(* sequences, so trace entry i of the source is element i + 1 here.        *)
(* Behaviour of the libraries the source calls (numpy, scipy, sklearn) is  *)
(* stated in the comment of the definition that relies on it.              *)
(***************************************************************************)
EXTENDS Integers, Sequences, FiniteSets, TLC

\* ------------------------------------------------------------------ bounds
\* largest number of coordinate rows / observation rows handed to BaySeg
MaxSites == 3
\* largest n_labels argument
MaxLabels == 2
\* largest physical dimension (number of coordinate columns)
MaxDim == 3
\* a fit(n) call is explored while Work(n) <= MaxWork, where Work(n) is
\*   len(coords) + n_labels * (1 + iterations already in the trace + n)
MaxWork == 6
\* longest coordinate array handed to define_neighborhood_system on its own
MaxChain == 5

\* ------------------------------------------------------------- value sets
MuVals == {0, 1}
\* 0 is the degenerate covariance
CovVals == {0, 1, 2}
BetaVals == {1, 2}
\* a jump length argument of fit: 0, or positive (1)
JumpVals == {0, 1}
\* values a coordinate may take (define_neighborhood_system never reads them)
CoordVals == {0, 1}
\* the uniform draw u = k / One for k in UVals
UVals == {0, 1}
One == Cardinality(UVals)
\* np.exp(log_target_prop - log_target_prev): nan, or v / One; ge tells
\* whether log_target_prop >= log_target_prev. A log target is a number or
\* -inf (the log of a density that underflowed to 0): the difference of two
\* numbers gives a ratio >= 1 exactly when it is not negative, -inf against a
\* number gives 0, a number against -inf gives inf, and -inf against -inf
\* gives nan.
RatioVals ==
    {[nan |-> TRUE, v |-> 0, ge |-> TRUE]} \cup
    {[nan |-> FALSE, v |-> k, ge |-> (k >= One)] : k \in 0..(One + 1)}

VARIABLES
    pc,            \* position: "new", "rejected", "idle", "fit", or a place in gibbs_sample
    dim,           \* self.dim
    coords,        \* len(self.coords)
    obs,           \* len(self.obs)
    n_labels,      \* self.n_labels
    neighborhood,  \* self.neighborhood
    labels,        \* self.labels, the label trace
    mus,           \* self.mus, the mean trace
    covs,          \* self.covs, the covariance trace
    betas,         \* self.betas, the beta trace
    fit_n,         \* argument n of the fit call in progress (of the last one when idle)
    g,             \* iterations of that call started so far
    jump,          \* the jump length arguments of that call
    raised,        \* the exception that ended the last call, "" if none
    fits,          \* fit calls made so far: 0, 1, or 2 for two and more
    loc,           \* the local variables of gibbs_sample
    coordinates,   \* argument of a direct call of define_neighborhood_system
    neighbors      \* what that call returned

vars == <<pc, dim, coords, obs, n_labels, neighborhood, labels, mus, covs, betas,
          fit_n, g, jump, raised, fits, loc, coordinates, neighbors>>

sampler == <<dim, coords, obs, n_labels, neighborhood>>
traces == <<labels, mus, covs, betas>>
call == <<fit_n, g, jump, fits>>
nbr == <<coordinates, neighbors>>

\* ----------------------------------------------------------------- helpers
Last(s) == s[Len(s)]

Ok(v) == [exc |-> "", val |-> v]
Raise(e) == [exc |-> e, val |-> <<>>]

\* Python's None
None == "None"

NoLocals ==
    [energy_like |-> "", gibbs_energy |-> <<>>, new_labels |-> <<>>, comp_coef |-> <<>>,
     beta_prop |-> 0, mu_prop |-> <<>>, cov_prop |-> <<>>, mu_next |-> <<>>,
     cov_next |-> <<>>, l |-> 0, log_target_prev |-> <<>>, log_target_prop |-> <<>>,
     acc_ratio |-> [nan |-> TRUE, v |-> 0, ge |-> TRUE]]

NoJump == [beta |-> 1, mu |-> 1, cov |-> 1]

\* ------------------------------------------------- define_neighborhood_system
\* as define_neighborhood_system, with the last site tested as i == len
define_neighborhood_system_last(d, len) ==
    [i \in 0..(len - 1) |->
        IF d = 1
        THEN IF i = 0 THEN <<i + 1>>
             ELSE IF i = len THEN <<i - 1>>
             ELSE <<i - 1, i + 1>>
        ELSE None]

\* d = np.shape(coordinates)[1], len = len(coordinates)
define_neighborhood_system(d, len) ==
    [i \in 0..(len - 1) |->
        IF d = 1
        THEN IF i = 0 THEN <<i + 1>>
             ELSE IF i = len - 1 THEN <<i - 1>>
             ELSE <<i - 1, i + 1>>
        ELSE None]

\* ------------------------------------------------------------ initialize_gmm
\* sklearn's GaussianMixture.fit raises ValueError for n_components < 1, for
\* non-finite input, for fewer than 2 samples and for fewer samples than
\* components; with bic, np.argmin of an empty array raises ValueError.
\* A fitted mixture has positive definite covariances (reg_covar).
gmm_means(k) == [l \in 0..(k - 1) |-> l % 2]
gmm_covariances(k) == [l \in 0..(k - 1) |-> 1]

initialize_gmm(bic, nl, n_obs, finite) ==
    IF nl < 1 \/ ~finite \/ n_obs < 2 \/ n_obs < nl
    THEN {Raise("ValueError")}
    ELSE UNION {{Ok([n_labels |-> k, means_ |-> gmm_means(k),
                     covariances_ |-> gmm_covariances(k), predict |-> p]) :
                   p \in [0..(n_obs - 1) -> 0..(k - 1)]} :
                k \in (IF bic THEN 1..nl ELSE {nl})}

\* ------------------------------------------------------------------ energies
IsDegenerate(c) == c = 0

\* np.linalg.inv raises LinAlgError on a singular matrix; self.obs[x] raises
\* IndexError when x >= len(self.obs). For dim # 1 the zero matrix is returned.
calc_energy_like(mu, cov) ==
    IF dim = 1
    THEN IF \E l \in DOMAIN cov : IsDegenerate(cov[l]) THEN Raise("LinAlgError")
         ELSE IF coords > obs THEN Raise("IndexError")
         ELSE Ok("computed")
    ELSE Ok("zeros")

\* as penalty, with gibbs_energy[x, l] = beta in place of += beta
penalty_assign(nl, lab, l, beta) ==
    IF \E k \in 1..Len(nl) : l # lab[nl[k]] THEN beta ELSE 0

RECURSIVE penalty(_, _, _, _)
\* the sum over the neighbors nl of beta where l differs from the neighbor's label
penalty(nl, lab, l, beta) ==
    IF nl = <<>> THEN 0
    ELSE (IF l # lab[Head(nl)] THEN beta ELSE 0) + penalty(Tail(nl), lab, l, beta)

\* labels[n] raises IndexError when n >= len(labels); for dim # 1 the name
\* gibbs_energy is never bound and the return raises UnboundLocalError.
calc_gibbs_energy(lab, beta) ==
    IF dim = 1
    THEN IF \E x \in DOMAIN neighborhood :
              \E k \in 1..Len(neighborhood[x]) : neighborhood[x][k] \notin DOMAIN lab
         THEN Raise("IndexError")
         ELSE Ok([x \in 0..(coords - 1) |->
                    [l \in 0..(n_labels - 1) |-> penalty(neighborhood[x], lab, l, beta)]])
    ELSE Raise("UnboundLocalError")

RowMin(row) == CHOOSE m \in {row[l] : l \in DOMAIN row} : \A l \in DOMAIN row : m <= row[l]

\* exp(-te / t) normalised over the labels of each site: for a given t the
\* probabilities of a site are given by the energies' offsets from the least
\* energy of the site, and rows that differ by a constant give the same
\* probabilities.
calc_labels_prob(te) ==
    [x \in DOMAIN te |-> [l \in DOMAIN te[x] |-> te[x][l] - RowMin(te[x])]]

\* scipy's multivariate_normal raises (LinAlgError) for a covariance that is
\* not positive definite; comp_coef[:, l] * draw and the assignment to
\* lmd[:, l] raise ValueError when len(self.obs) # len(self.coords).
calc_sum_log_mixture_density(comp_coef, mu, cov) ==
    IF \E l \in DOMAIN cov : IsDegenerate(cov[l]) THEN Raise("LinAlgError")
    ELSE IF obs # coords THEN Raise("ValueError")
    ELSE Ok([coef |-> comp_coef, mu |-> mu, cov |-> cov])

\* A log prior density is identified by the prior and the point it is
\* evaluated at: priors_mu[label].pdf is applied to the whole mean matrix,
\* log_prior_density_cov reads cov[l] only.
log_prior_density_mu(mu, label) == [prior |-> "mu", label |-> label, at |-> mu]
log_prior_density_cov(cov, l) == [prior |-> "cov", label |-> l, at |-> cov[l]]
log_prior_density_beta(beta) == [prior |-> "beta", label |-> None, at |-> beta]

\* lmd + lp of lines 192-193, 227-228, 259 and 262
log_target(lmd, lp) == [lmd |-> lmd, lp |-> lp]

\* as Accept, with the uniform draw tested as u <= acc_ratio
Accept_le(acc_ratio, u) == ~acc_ratio.nan /\ (acc_ratio.v > One \/ u <= acc_ratio.v)

\* the acceptance test of lines 200, 237 and 270; a comparison with nan is False
Accept(acc_ratio, u) == ~acc_ratio.nan /\ (acc_ratio.v > One \/ u < acc_ratio.v)

\* np.exp(log_target_prop - log_target_prev) for the two evaluated targets:
\* equal targets give exp(0) = 1 (or nan when both are infinite)
Ratios(target_prev, target_prop) ==
    IF target_prev = target_prop
    THEN {r \in RatioVals : r.nan \/ r.v = One}
    ELSE RatioVals

\* ------------------------------------------------------------------ __init__
Init ==
    /\ pc = "new"
    /\ dim = 0 /\ coords = 0 /\ obs = 0 /\ n_labels = 0 /\ neighborhood = <<>>
    /\ labels = <<>> /\ mus = <<>> /\ covs = <<>> /\ betas = <<>>
    /\ fit_n = 0 /\ g = 0 /\ jump = NoJump /\ raised = "" /\ fits = 0
    /\ loc = NoLocals
    /\ coordinates = <<>> /\ neighbors = <<>>

Construct ==
    /\ pc = "new"
    /\ \E d \in 1..MaxDim, nc \in 1..MaxSites, no \in 1..MaxSites, finite \in BOOLEAN,
          nl \in 0..MaxLabels, bic \in BOOLEAN, beta_init \in {1} :
         \E r \in initialize_gmm(bic, nl, no, finite) :
            IF r.exc # ""
            THEN /\ pc' = "rejected"
                 /\ raised' = r.exc
                 /\ UNCHANGED <<sampler, traces>>
            ELSE /\ pc' = "idle"
                 /\ raised' = ""
                 /\ dim' = d /\ coords' = nc /\ obs' = no
                 /\ betas' = <<beta_init>>
                 /\ neighborhood' = define_neighborhood_system(d, nc)
                 /\ n_labels' = r.val.n_labels
                 /\ labels' = <<r.val.predict>>
                 /\ mus' = <<r.val.means_>>
                 /\ covs' = <<r.val.covariances_>>
    /\ UNCHANGED <<call, loc, nbr>>

\* ----------------------------------------------------------------------- fit
Work(k) == coords + n_labels * (1 + (Len(labels) - 1) + k)

Fit ==
    /\ pc = "idle"
    /\ \E k \in 0..MaxWork, bj \in JumpVals, mj \in JumpVals, cj \in JumpVals :
         /\ Work(k) <= MaxWork
         /\ fit_n' = k
         /\ jump' = [beta |-> bj, mu |-> mj, cov |-> cj]
    /\ g' = 0
    /\ fits' = IF fits < 2 THEN fits + 1 ELSE fits
    /\ raised' = ""
    /\ pc' = "fit"
    /\ UNCHANGED <<sampler, traces, loc, nbr>>

\* as FitNext, looping over range(n + 1)
FitNext_extra ==
    /\ pc = "fit"
    /\ g <= fit_n
    /\ g' = g + 1
    /\ pc' = "energy_like"
    /\ loc' = NoLocals
    /\ UNCHANGED <<sampler, traces, fit_n, jump, fits, raised, nbr>>

\* for g in tqdm.trange(n): self.gibbs_sample(...)
FitNext ==
    /\ pc = "fit"
    /\ g < fit_n
    /\ g' = g + 1
    /\ pc' = "energy_like"
    /\ loc' = NoLocals
    /\ UNCHANGED <<sampler, traces, fit_n, jump, fits, raised, nbr>>

FitReturn ==
    /\ pc = "fit"
    /\ g >= fit_n
    /\ pc' = "idle"
    /\ jump' = NoJump
    /\ loc' = NoLocals
    /\ UNCHANGED <<sampler, traces, fit_n, g, fits, raised, nbr>>

\* an exception leaves gibbs_sample and fit; what was appended stays appended
Abort(e) ==
    /\ pc' = "idle"
    /\ raised' = e
    /\ loc' = NoLocals
    /\ jump' = NoJump
    /\ UNCHANGED <<fit_n, g, fits>>

Step(next_pc, next_loc) ==
    /\ pc' = next_pc
    /\ loc' = next_loc
    /\ UNCHANGED <<fit_n, g, jump, fits, raised>>

\* -------------------------------------------------------------- gibbs_sample
CalcEnergyLike ==
    /\ pc = "energy_like"
    /\ LET r == calc_energy_like(Last(mus), Last(covs)) IN
         IF r.exc # "" THEN Abort(r.exc)
         ELSE Step("gibbs_energy", [loc EXCEPT !.energy_like = r.val])
    /\ UNCHANGED <<sampler, traces, nbr>>

CalcGibbsEnergy ==
    /\ pc = "gibbs_energy"
    /\ LET r == calc_gibbs_energy(Last(labels), Last(betas)) IN
         IF r.exc # "" THEN Abort(r.exc)
         ELSE Step("draw_labels", [loc EXCEPT !.gibbs_energy = r.val])
    /\ UNCHANGED <<sampler, traces, nbr>>

\* as DrawLabels, drawing from range(n_labels + 1)
DrawLabels_range ==
    /\ pc = "draw_labels"
    /\ \E new_labels \in [0..(coords - 1) -> 0..n_labels] :
         /\ labels' = Append(labels, new_labels)
         /\ Step("comp_coef", [loc EXCEPT !.new_labels = new_labels])
    /\ UNCHANGED <<sampler, mus, covs, betas, nbr>>

\* every label has a positive probability under the softmax of calc_labels_prob
DrawLabels ==
    /\ pc = "draw_labels"
    /\ \E new_labels \in [0..(coords - 1) -> 0..(n_labels - 1)] :
         /\ labels' = Append(labels, new_labels)
         /\ Step("comp_coef", [loc EXCEPT !.new_labels = new_labels])
    /\ UNCHANGED <<sampler, mus, covs, betas, nbr>>

\* as CompCoef, without the recalculation of line 150: the coefficients come
\* from the Gibbs energy of the previous labels
CompCoef_stale ==
    /\ pc = "comp_coef"
    /\ LET r == calc_gibbs_energy(loc.new_labels, Last(betas)) IN
         IF r.exc # "" THEN Abort(r.exc)
         ELSE Step("propose", [loc EXCEPT !.comp_coef = calc_labels_prob(loc.gibbs_energy)])
    /\ UNCHANGED <<sampler, traces, nbr>>

CompCoef ==
    /\ pc = "comp_coef"
    /\ LET r == calc_gibbs_energy(loc.new_labels, Last(betas)) IN
         IF r.exc # "" THEN Abort(r.exc)
         ELSE Step("propose", [loc EXCEPT !.gibbs_energy = r.val,
                                          !.comp_coef = calc_labels_prob(r.val)])
    /\ UNCHANGED <<sampler, traces, nbr>>

\* scipy's multivariate_normal raises LinAlgError for the zero covariance that
\* a jump length of 0 gives. A proposed covariance is positive definite in
\* exact arithmetic; np.exp(np.log(d_l) + log_d_jump) underflows to 0 or
\* overflows for a large jump, which gives a degenerate proposal.
Propose ==
    /\ pc = "propose"
    /\ IF jump.beta = 0 \/ jump.mu = 0 \/ jump.cov = 0
       THEN Abort("LinAlgError")
       ELSE \E beta_prop \in BetaVals,
               mu_prop \in [0..(n_labels - 1) -> MuVals],
               cov_prop \in [0..(n_labels - 1) -> CovVals] :
              Step("mu", [loc EXCEPT !.beta_prop = beta_prop, !.mu_prop = mu_prop,
                                     !.cov_prop = cov_prop,
                                     !.mu_next = Last(mus), !.cov_next = Last(covs),
                                     !.l = 0])
    /\ UNCHANGED <<sampler, traces, nbr>>

\* as MuEval, every label compared against the means of the previous iteration
MuEval_simultaneous ==
    /\ pc = "mu"
    /\ LET mu_temp == [Last(mus) EXCEPT ![loc.l] = loc.mu_prop[loc.l]]
           lmd_prev == calc_sum_log_mixture_density(loc.comp_coef, Last(mus), loc.cov_next)
           lmd_prop == calc_sum_log_mixture_density(loc.comp_coef, mu_temp, loc.cov_next)
       IN IF lmd_prev.exc # "" THEN Abort(lmd_prev.exc)
          ELSE IF lmd_prop.exc # "" THEN Abort(lmd_prop.exc)
          ELSE LET log_target_prev ==
                       log_target(lmd_prev.val, log_prior_density_mu(Last(mus), loc.l))
                   log_target_prop ==
                       log_target(lmd_prop.val, log_prior_density_mu(mu_temp, loc.l))
               IN \E r \in Ratios(log_target_prev, log_target_prop) :
                    Step("mu_accept", [loc EXCEPT !.log_target_prev = log_target_prev,
                                                  !.log_target_prop = log_target_prop,
                                                  !.acc_ratio = r])
    /\ UNCHANGED <<sampler, traces, nbr>>

MuEval ==
    /\ pc = "mu"
    /\ LET mu_temp == [loc.mu_next EXCEPT ![loc.l] = loc.mu_prop[loc.l]]
           lmd_prev == calc_sum_log_mixture_density(loc.comp_coef, loc.mu_next, loc.cov_next)
           lmd_prop == calc_sum_log_mixture_density(loc.comp_coef, mu_temp, loc.cov_next)
       IN IF lmd_prev.exc # "" THEN Abort(lmd_prev.exc)
          ELSE IF lmd_prop.exc # "" THEN Abort(lmd_prop.exc)
          ELSE LET log_target_prev ==
                       log_target(lmd_prev.val, log_prior_density_mu(loc.mu_next, loc.l))
                   log_target_prop ==
                       log_target(lmd_prop.val, log_prior_density_mu(mu_temp, loc.l))
               IN \E r \in Ratios(log_target_prev, log_target_prop) :
                    Step("mu_accept", [loc EXCEPT !.log_target_prev = log_target_prev,
                                                  !.log_target_prop = log_target_prop,
                                                  !.acc_ratio = r])
    /\ UNCHANGED <<sampler, traces, nbr>>

\* as MuAccept, with mu_next the array self.mus[-1] itself instead of a copy
MuAccept_alias ==
    /\ pc = "mu_accept"
    /\ \E u \in UVals :
         LET next == IF Accept(loc.acc_ratio, u)
                     THEN [loc.mu_next EXCEPT ![loc.l] = loc.mu_prop[loc.l]]
                     ELSE loc.mu_next
         IN /\ Step(IF loc.l + 1 < n_labels THEN "mu" ELSE "mu_append",
                     [loc EXCEPT !.mu_next = next, !.l = @ + 1])
            /\ mus' = [mus EXCEPT ![Len(mus)] = next]
    /\ UNCHANGED <<sampler, labels, covs, betas, nbr>>

MuAccept ==
    /\ pc = "mu_accept"
    /\ \E u \in UVals :
         Step(IF loc.l + 1 < n_labels THEN "mu" ELSE "mu_append",
              [loc EXCEPT !.mu_next = IF Accept(loc.acc_ratio, u)
                                      THEN [@ EXCEPT ![loc.l] = loc.mu_prop[loc.l]]
                                      ELSE @,
                          !.l = @ + 1])
    /\ UNCHANGED <<sampler, traces, nbr>>

MuAppend ==
    /\ pc = "mu_append"
    /\ mus' = Append(mus, loc.mu_next)
    /\ Step("cov", [loc EXCEPT !.l = 0])
    /\ UNCHANGED <<sampler, labels, covs, betas, nbr>>

CovEval ==
    /\ pc = "cov"
    /\ LET cov_temp == [loc.cov_next EXCEPT ![loc.l] = loc.cov_prop[loc.l]]
           lmd_prev == calc_sum_log_mixture_density(loc.comp_coef, loc.mu_next, loc.cov_next)
           lmd_prop == calc_sum_log_mixture_density(loc.comp_coef, loc.mu_next, cov_temp)
       IN IF lmd_prev.exc # "" THEN Abort(lmd_prev.exc)
          ELSE IF lmd_prop.exc # "" THEN Abort(lmd_prop.exc)
          ELSE LET log_target_prev ==
                       log_target(lmd_prev.val, log_prior_density_cov(loc.cov_next, loc.l))
                   log_target_prop ==
                       log_target(lmd_prop.val, log_prior_density_cov(cov_temp, loc.l))
               IN \E r \in Ratios(log_target_prev, log_target_prop) :
                    Step("cov_accept", [loc EXCEPT !.log_target_prev = log_target_prev,
                                                   !.log_target_prop = log_target_prop,
                                                   !.acc_ratio = r])
    /\ UNCHANGED <<sampler, traces, nbr>>

\* as CovAccept, committing the whole proposal: cov_next[:] = cov_prop[:]
CovAccept_all ==
    /\ pc = "cov_accept"
    /\ \E u \in UVals :
         Step(IF loc.l + 1 < n_labels THEN "cov" ELSE "cov_append",
              [loc EXCEPT !.cov_next = IF Accept(loc.acc_ratio, u) THEN loc.cov_prop ELSE @,
                          !.l = @ + 1])
    /\ UNCHANGED <<sampler, traces, nbr>>

CovAccept ==
    /\ pc = "cov_accept"
    /\ \E u \in UVals :
         Step(IF loc.l + 1 < n_labels THEN "cov" ELSE "cov_append",
              [loc EXCEPT !.cov_next = IF Accept(loc.acc_ratio, u)
                                       THEN [@ EXCEPT ![loc.l] = loc.cov_prop[loc.l]]
                                       ELSE @,
                          !.l = @ + 1])
    /\ UNCHANGED <<sampler, traces, nbr>>

CovAppend ==
    /\ pc = "cov_append"
    /\ covs' = Append(covs, loc.cov_next)
    /\ Step("beta", [loc EXCEPT !.l = 0])
    /\ UNCHANGED <<sampler, labels, mus, betas, nbr>>

BetaEval ==
    /\ pc = "beta"
    /\ LET r_prop == calc_gibbs_energy(loc.new_labels, loc.beta_prop)
           lmd_prev == calc_sum_log_mixture_density(loc.comp_coef, Last(mus), Last(covs))
       IN IF lmd_prev.exc # "" THEN Abort(lmd_prev.exc)
          ELSE IF r_prop.exc # "" THEN Abort(r_prop.exc)
          ELSE LET comp_coef_prop == calc_labels_prob(r_prop.val)
                   lmd_prop == calc_sum_log_mixture_density(comp_coef_prop, Last(mus), Last(covs))
               IN IF lmd_prop.exc # "" THEN Abort(lmd_prop.exc)
                  ELSE LET log_target_prev ==
                               log_target(lmd_prev.val, log_prior_density_beta(Last(betas)))
                           log_target_prop ==
                               log_target(lmd_prop.val, log_prior_density_beta(loc.beta_prop))
                       IN \E r \in Ratios(log_target_prev, log_target_prop) :
                            Step("beta_accept",
                                 [loc EXCEPT !.log_target_prev = log_target_prev,
                                             !.log_target_prop = log_target_prop,
                                             !.acc_ratio = r])
    /\ UNCHANGED <<sampler, traces, nbr>>

\* as BetaAccept, without the else branch: a rejection appends nothing
BetaAccept_skip ==
    /\ pc = "beta_accept"
    /\ \E u \in UVals :
         betas' = IF Accept(loc.acc_ratio, u) THEN Append(betas, loc.beta_prop) ELSE betas
    /\ Step("fit", loc)
    /\ UNCHANGED <<sampler, labels, mus, covs, nbr>>

BetaAccept ==
    /\ pc = "beta_accept"
    /\ \E u \in UVals :
         betas' = Append(betas, IF Accept(loc.acc_ratio, u) THEN loc.beta_prop ELSE Last(betas))
    /\ Step("fit", loc)
    /\ UNCHANGED <<sampler, labels, mus, covs, nbr>>

Next ==
    \/ Construct
    \/ Fit
    \/ FitNext
    \/ FitReturn
    \/ CalcEnergyLike
    \/ CalcGibbsEnergy
    \/ DrawLabels
    \/ CompCoef
    \/ Propose
    \/ MuEval
    \/ MuAccept
    \/ MuAppend
    \/ CovEval
    \/ CovAccept
    \/ CovAppend
    \/ BetaEval
    \/ BetaAccept

Spec == Init /\ [][Next]_vars

\* ------------------------------ define_neighborhood_system called on its own
InitNbr ==
    /\ pc = "call"
    /\ coordinates \in {[dim |-> d, pos |-> p] :
                           d \in 1..MaxDim,
                           p \in UNION {[1..k -> CoordVals] : k \in 0..MaxChain}}
    /\ neighbors = <<>>
    /\ dim = 0 /\ coords = 0 /\ obs = 0 /\ n_labels = 0 /\ neighborhood = <<>>
    /\ labels = <<>> /\ mus = <<>> /\ covs = <<>> /\ betas = <<>>
    /\ fit_n = 0 /\ g = 0 /\ jump = NoJump /\ raised = "" /\ fits = 0
    /\ loc = NoLocals

DefineNeighborhood ==
    /\ pc = "call"
    /\ neighbors' = define_neighborhood_system(coordinates.dim, Len(coordinates.pos))
    /\ pc' = "return"
    /\ UNCHANGED <<sampler, traces, call, raised, loc, coordinates>>

NextNbr == DefineNeighborhood

SpecNbr == InitNbr /\ [][NextNbr]_vars

\* ------------------------- calc_gibbs_energy called on a constructed sampler
\* a 1-D sampler as __init__ leaves it, for as many observations as coordinates
InitGibbs ==
    /\ pc = "call_gibbs"
    /\ dim = 1
    /\ coords \in 2..MaxChain /\ obs = coords
    /\ n_labels \in 1..MaxLabels
    /\ neighborhood = define_neighborhood_system(dim, coords)
    /\ labels \in {<<lab>> : lab \in [0..(coords - 1) -> 0..(n_labels - 1)]}
    /\ mus = <<gmm_means(n_labels)>> /\ covs = <<gmm_covariances(n_labels)>>
    /\ betas \in {<<beta_init>> : beta_init \in BetaVals}
    /\ fit_n = 0 /\ g = 0 /\ jump = NoJump /\ raised = "" /\ fits = 0
    /\ loc = NoLocals
    /\ coordinates = <<>> /\ neighbors = <<>>

GibbsEnergyCall ==
    /\ pc = "call_gibbs"
    /\ LET r == calc_gibbs_energy(Last(labels), Last(betas)) IN
         /\ raised' = r.exc
         /\ loc' = [loc EXCEPT !.gibbs_energy = r.val]
    /\ pc' = "return_gibbs"
    /\ UNCHANGED <<sampler, traces, call, nbr>>

NextGibbs == GibbsEnergyCall

SpecGibbs == InitGibbs /\ [][NextGibbs]_vars

\* =================================================================== claims
\* t2 is t with exactly one entry appended, the entries of t unchanged
IsAppend(t, t2) == Len(t2) = Len(t) + 1 /\ \A i \in 1..Len(t) : t2[i] = t[i]

\* the sampler exists and no call is in progress
Observable == pc = "idle"

\* C1: whenever the sampler can be observed from outside, the four traces
\* have the same length.
C1_TracesEqualLength ==
    Observable => (Len(labels) = Len(mus) /\ Len(mus) = Len(covs) /\ Len(covs) = Len(betas))

\* C2: a fit(n) call on a freshly constructed sampler that completes has run
\* exactly n iterations and leaves each of the four traces with n + 1 entries,
\* entry 0 being the initializer's output.
C2_FitCompletes ==
    (pc = "idle" /\ fits = 1 /\ raised = "") =>
        /\ g = fit_n
        /\ Len(labels) = fit_n + 1 /\ Len(mus) = fit_n + 1
        /\ Len(covs) = fit_n + 1 /\ Len(betas) = fit_n + 1
        /\ DOMAIN labels[1] = 0..(obs - 1)
        /\ mus[1] = gmm_means(n_labels)
        /\ covs[1] = gmm_covariances(n_labels)
        /\ betas[1] = 1

C2_Witness ==
    /\ pc = "idle" /\ fits = 1 /\ raised = ""
    /\ fit_n = 2 /\ g = 2
    /\ Len(labels) = 3 /\ Len(betas) = 3

LabelsInRange ==
    \A i \in 1..Len(labels) :
        /\ DOMAIN labels[i] = 0..((IF i = 1 THEN obs ELSE coords) - 1)
        /\ \A s \in DOMAIN labels[i] : labels[i][s] \in 0..(n_labels - 1)

\* C3: every label of every trace entry, entry 0 included, is in
\* [0, n_labels), and n_labels never changes once the sampler is constructed.
C3_LabelsInRange ==
    /\ []LabelsInRange
    /\ [][pc # "new" => n_labels' = n_labels]_vars

C3_Witness ==
    /\ pc = "idle" /\ n_labels = 2 /\ coords = 2 /\ Len(labels) = 2
    /\ labels[2][0] = 1 /\ labels[2][1] = 0

\* C4: a step of fit changes a trace only by appending one entry to it (the
\* label trace where the labels are drawn, the mean, covariance and beta trace
\* where the iteration appends to them); every entry already present stays.
C4_AppendOnly ==
    [][pc # "new" =>
        /\ IF pc = "draw_labels" THEN IsAppend(labels, labels') ELSE labels' = labels
        /\ IF pc = "mu_append" THEN IsAppend(mus, mus') ELSE mus' = mus
        /\ IF pc = "cov_append" THEN IsAppend(covs, covs') ELSE covs' = covs
        /\ IF pc = "beta_accept" THEN IsAppend(betas, betas') ELSE betas' = betas]_vars

\* an iteration of a second fit call has appended, with an accepted mean
C4_Witness ==
    /\ pc = "fit" /\ fits = 2 /\ g = 1
    /\ Len(labels) = 3 /\ Len(mus) = 3 /\ Len(covs) = 3 /\ Len(betas) = 3
    /\ mus[3] # mus[2]

\* C5: the beta update appends exactly one value to the beta trace: the
\* proposed beta or the previous beta; the proposal when the acceptance ratio
\* is above 1, the previous beta when the ratio is 0 or nan. No other step of
\* the iteration changes the beta trace.
C5_BetaAppended ==
    [][pc # "new" =>
        IF pc = "beta_accept"
        THEN /\ IsAppend(betas, betas')
             /\ Last(betas') \in {loc.beta_prop, Last(betas)}
             /\ (~loc.acc_ratio.nan /\ loc.acc_ratio.v > One) => Last(betas') = loc.beta_prop
             /\ (loc.acc_ratio.nan \/ loc.acc_ratio.v = 0) => Last(betas') = Last(betas)
        ELSE betas' = betas]_vars

\* an iteration has ended whose beta proposal, different from the previous
\* beta, was rejected
C5_Witness ==
    /\ pc = "fit" /\ g = 1 /\ Len(betas) = 2 /\ Len(labels) = 2
    /\ loc.beta_prop \in BetaVals
    /\ ~loc.acc_ratio.nan /\ loc.acc_ratio.v = 0
    /\ loc.beta_prop # betas[1]
    /\ betas[2] = betas[1]

\* C6: the accept/reject decision for label l leaves every other row of the
\* working means (covariances) as it is and sets row l to its previous value
\* or to the value proposed for l; the entry appended to the mean (covariance)
\* trace has in every row the row of the previous entry or the proposed row.
C6_RowsPrevOrProposed ==
    [][/\ pc = "mu_accept" =>
            /\ \A k \in DOMAIN loc.mu_next : k # loc.l => loc'.mu_next[k] = loc.mu_next[k]
            /\ loc'.mu_next[loc.l] \in {loc.mu_next[loc.l], loc.mu_prop[loc.l]}
            /\ loc'.cov_next = loc.cov_next
       /\ pc = "cov_accept" =>
            /\ \A k \in DOMAIN loc.cov_next : k # loc.l => loc'.cov_next[k] = loc.cov_next[k]
            /\ loc'.cov_next[loc.l] \in {loc.cov_next[loc.l], loc.cov_prop[loc.l]}
            /\ loc'.mu_next = loc.mu_next
       /\ pc = "mu_append" =>
            /\ IsAppend(mus, mus')
            /\ \A k \in 0..(n_labels - 1) : Last(mus')[k] \in {Last(mus)[k], loc.mu_prop[k]}
       /\ pc = "cov_append" =>
            /\ IsAppend(covs, covs')
            /\ \A k \in 0..(n_labels - 1) : Last(covs')[k] \in {Last(covs)[k], loc.cov_prop[k]}
      ]_vars

\* an iteration has ended with the mean of label 0 and the covariance of
\* label 1 accepted, the mean of label 1 and the covariance of label 0 rejected
C6_Witness ==
    /\ pc = "fit" /\ g = 1 /\ n_labels = 2 /\ Len(mus) = 2 /\ Len(covs) = 2
    /\ mus[2][0] = loc.mu_prop[0] /\ mus[2][0] # mus[1][0]
    /\ mus[2][1] = mus[1][1] /\ mus[2][1] # loc.mu_prop[1]
    /\ covs[2][1] = loc.cov_prop[1] /\ covs[2][1] # covs[1][1]
    /\ covs[2][0] = covs[1][0] /\ covs[2][0] # loc.cov_prop[0]

\* C7: with a physical dimension other than 1 no sampling state (no trace
\* entry) is ever created, and no energy computation returns the zero matrix.
C7_NonOneDimFailsEarly ==
    /\ dim # 1 => (labels = <<>> /\ mus = <<>> /\ covs = <<>> /\ betas = <<>>)
    /\ loc.energy_like # "zeros"

\* C8: when the covariance proposed for a label is degenerate, the evaluation
\* of that block goes on to a rejection (acceptance ratio 0 or nan): no error
\* leaves the iteration.
C8_DegenerateOnlyRejects ==
    [][(pc = "cov" /\ IsDegenerate(loc.cov_prop[loc.l])) =>
          (pc' = "cov_accept" /\ raised' = ""
           /\ (loc'.acc_ratio.nan \/ loc'.acc_ratio.v = 0))]_vars

\* C9: a sampler (with its traces) exists only for as many coordinates as
\* observations and a label count of at least 1.
C9_InvalidInputRejected ==
    pc \notin {"new", "rejected"} => (coords = obs /\ n_labels >= 1)

ChainLen == Len(coordinates.pos)

\* the claim as stated, for every chain of at least one site
C10_AnyChain ==
    (pc = "return" /\ coordinates.dim = 1 /\ ChainLen >= 1) =>
        /\ neighbors[0] = <<1>>
        /\ neighbors[ChainLen - 1] = <<ChainLen - 2>>
        /\ \A i \in 1..(ChainLen - 2) : neighbors[i] = <<i - 1, i + 1>>

\* C10: for a 1-D chain of N >= 2 sites define_neighborhood_system gives
\* site 0 the list [1], site N-1 the list [N-2] and an interior site i the
\* list [i-1, i+1]; for 5 sites {0:[1], 1:[0,2], 2:[1,3], 3:[2,4], 4:[3]}.
C10_Chain ==
    (pc = "return" /\ coordinates.dim = 1 /\ ChainLen >= 2) =>
        /\ DOMAIN neighbors = 0..(ChainLen - 1)
        /\ neighbors[0] = <<1>>
        /\ neighbors[ChainLen - 1] = <<ChainLen - 2>>
        /\ \A i \in 1..(ChainLen - 2) : neighbors[i] = <<i - 1, i + 1>>
        /\ ChainLen = 5 =>
             neighbors = (0 :> <<1>> @@ 1 :> <<0, 2>> @@ 2 :> <<1, 3>> @@
                          3 :> <<2, 4>> @@ 4 :> <<3>>)

C10_Witness ==
    /\ pc = "return" /\ coordinates.dim = 1 /\ ChainLen = 5
    /\ neighbors[4] = <<3>> /\ neighbors[2] = <<1, 3>>

\* the sites listed as neighbors of site i
Listed(i) == {neighbors[i][k] : k \in 1..Len(neighbors[i])}

\* C11: for a 1-D chain of N >= 1 sites the neighbor graph is symmetric (j is
\* listed for i if and only if i is listed for j) and every listed neighbor
\* is a site index in [0, N).
C11_Symmetric ==
    (pc = "return" /\ coordinates.dim = 1 /\ ChainLen >= 1) =>
        /\ \A i \in 0..(ChainLen - 1) : Listed(i) \subseteq 0..(ChainLen - 1)
        /\ \A i, j \in 0..(ChainLen - 1) : (j \in Listed(i)) <=> (i \in Listed(j))

\* the neighbors of site x whose label in lab differs from l
Differing(x, lab, l) ==
    {k \in 1..Len(neighborhood[x]) : lab[neighborhood[x][k]] # l}

\* the neighbors of site x that carry label l in lab
Carrying(x, lab, l) ==
    {k \in 1..Len(neighborhood[x]) : lab[neighborhood[x][k]] = l}

\* C12: in the 1-D case calc_gibbs_energy returns, for every site x and label
\* l, beta times the number of neighbors of x whose label differs from l; with
\* beta = 1 an interior site has energy 2 for a label carried by neither
\* neighbor, 1 for a label carried by exactly one, 0 for a label carried by
\* both, and an end site has energy at most 1.
C12_GibbsEnergy ==
    pc = "return_gibbs" =>
        /\ raised = ""
        /\ DOMAIN loc.gibbs_energy = 0..(coords - 1)
        /\ \A x \in 0..(coords - 1) :
             /\ DOMAIN loc.gibbs_energy[x] = 0..(n_labels - 1)
             /\ \A l \in 0..(n_labels - 1) :
                  LET e == loc.gibbs_energy[x][l]
                      c == Cardinality(Carrying(x, Last(labels), l))
                  IN /\ e = Last(betas) * Cardinality(Differing(x, Last(labels), l))
                     /\ (Last(betas) = 1 /\ 0 < x /\ x < coords - 1) =>
                            /\ c = 0 => e = 2
                            /\ c = 1 => e = 1
                            /\ c = 2 => e = 0
                     /\ (Last(betas) = 1 /\ (x = 0 \/ x = coords - 1)) => e <= 1

\* the energies of an interior site whose two neighbors both carry label 0
C12_Witness ==
    /\ pc = "return_gibbs" /\ coords = 3 /\ n_labels = 2 /\ Last(betas) = 1
    /\ Last(labels)[0] = 0 /\ Last(labels)[2] = 0
    /\ loc.gibbs_energy[1][1] = 2 /\ loc.gibbs_energy[1][0] = 0
    /\ loc.gibbs_energy[0][0] = 1

\* the arguments of the two evaluated log mixture densities
Current == loc'.log_target_prev.lmd
Candidate == loc'.log_target_prop.lmd

\* rows below l of the working array w are the previous or the proposed row,
\* the rows from l on are still those of the previous trace entry
Progressive(w, l, previous, proposed) ==
    \A k \in DOMAIN w : IF k < l THEN w[k] \in {previous[k], proposed[k]}
                                 ELSE w[k] = previous[k]

\* C13: the blocks of an iteration are evaluated in the order mean(0), ...,
\* mean(L-1), covariance(0), ..., covariance(L-1), beta. The comparison for
\* label l's mean has the working means (decided for the labels below l,
\* previous for the others) as current and the same with row l proposed as
\* candidate; a covariance comparison has the iteration's appended means and
\* the working covariances; the beta comparison has the iteration's appended
\* means and covariances on both sides.
C13_BlockOrder ==
    [][/\ (pc = "propose" /\ pc' # "idle") => (pc' = "mu" /\ loc'.l = 0)
       /\ (pc = "mu" /\ pc' # "idle") =>
            /\ pc' = "mu_accept" /\ loc'.l = loc.l
            /\ Current.mu = loc.mu_next
            /\ Progressive(Current.mu, loc.l, Last(mus), loc.mu_prop)
            /\ Candidate.mu = [loc.mu_next EXCEPT ![loc.l] = loc.mu_prop[loc.l]]
            /\ Current.cov = Last(covs) /\ Candidate.cov = Last(covs)
       /\ pc = "mu_accept" =>
            /\ IF loc.l + 1 < n_labels THEN pc' = "mu" /\ loc'.l = loc.l + 1
                                       ELSE pc' = "mu_append"
            /\ (~loc.acc_ratio.nan /\ loc.acc_ratio.v > One) =>
                   loc'.mu_next[loc.l] = loc.mu_prop[loc.l]
            /\ (loc.acc_ratio.nan \/ loc.acc_ratio.v = 0) =>
                   loc'.mu_next[loc.l] = loc.mu_next[loc.l]
       /\ pc = "mu_append" => (pc' = "cov" /\ loc'.l = 0 /\ Last(mus') = loc.mu_next)
       /\ (pc = "cov" /\ pc' # "idle") =>
            /\ pc' = "cov_accept" /\ loc'.l = loc.l
            /\ Current.mu = Last(mus) /\ Candidate.mu = Last(mus)
            /\ Last(mus) = loc.mu_next
            /\ Current.cov = loc.cov_next
            /\ Progressive(Current.cov, loc.l, Last(covs), loc.cov_prop)
            /\ Candidate.cov = [loc.cov_next EXCEPT ![loc.l] = loc.cov_prop[loc.l]]
       /\ pc = "cov_accept" =>
            /\ IF loc.l + 1 < n_labels THEN pc' = "cov" /\ loc'.l = loc.l + 1
                                       ELSE pc' = "cov_append"
            /\ (~loc.acc_ratio.nan /\ loc.acc_ratio.v > One) =>
                   loc'.cov_next[loc.l] = loc.cov_prop[loc.l]
            /\ (loc.acc_ratio.nan \/ loc.acc_ratio.v = 0) =>
                   loc'.cov_next[loc.l] = loc.cov_next[loc.l]
       /\ pc = "cov_append" => (pc' = "beta" /\ Last(covs') = loc.cov_next)
       /\ (pc = "beta" /\ pc' # "idle") =>
            /\ pc' = "beta_accept"
            /\ Current.mu = loc.mu_next /\ Candidate.mu = loc.mu_next
            /\ Current.cov = loc.cov_next /\ Candidate.cov = loc.cov_next
            /\ Last(mus) = loc.mu_next /\ Last(covs) = loc.cov_next
       /\ pc = "beta_accept" => pc' = "fit"
      ]_vars

\* the covariance of label 1 is being compared after the mean and the
\* covariance of label 0 were accepted
C13_Witness ==
    /\ pc = "cov_accept" /\ n_labels = 2 /\ loc.l = 1
    /\ loc.mu_next[0] = loc.mu_prop[0] /\ loc.mu_next[0] # mus[Len(mus) - 1][0]
    /\ loc.cov_next[0] = loc.cov_prop[0] /\ loc.cov_next[0] # Last(covs)[0]
    /\ loc.log_target_prev.lmd.mu = loc.mu_next
    /\ loc.log_target_prev.lmd.cov = loc.cov_next
    /\ loc.log_target_prop.lmd.cov[1] = loc.cov_prop[1]

\* the coefficients that the labels drawn in this iteration give with beta
FreshCoef(beta) == calc_labels_prob(calc_gibbs_energy(loc.new_labels, beta).val)

\* between the draw of the labels and the end of the iteration
AfterDraw ==
    pc \in {"comp_coef", "propose", "mu", "mu_accept", "mu_append",
            "cov", "cov_accept", "cov_append", "beta"}

\* C14: the component coefficients of the mean comparisons, the covariance
\* comparisons and the current side of the beta comparison are those of the
\* labels drawn in this iteration with the beta of the previous iteration
\* (the last trace entry, to which this iteration has not appended yet); the
\* candidate side of the beta comparison has the coefficients of the same
\* labels with the proposed beta.
C14_CompCoef ==
    [][/\ pc = "draw_labels" => Last(labels') = loc'.new_labels
       /\ AfterDraw => /\ labels' = labels /\ betas' = betas
                       /\ Last(labels) = loc.new_labels
                       /\ pc' # "idle" => loc'.new_labels = loc.new_labels
       /\ (pc = "comp_coef" /\ pc' # "idle") => loc'.comp_coef = FreshCoef(Last(betas))
       /\ (pc \in {"mu", "cov"} /\ pc' # "idle") =>
            /\ Current.coef = FreshCoef(Last(betas))
            /\ Candidate.coef = FreshCoef(Last(betas))
       /\ (pc = "beta" /\ pc' # "idle") =>
            /\ Current.coef = FreshCoef(Last(betas))
            /\ Candidate.coef = FreshCoef(loc.beta_prop)
      ]_vars

\* the beta comparison has been evaluated where the fresh labels give other
\* coefficients than the previous labels and the proposed beta other
\* coefficients than the previous beta
C14_Witness ==
    /\ pc = "beta_accept" /\ coords = 2 /\ n_labels = 2 /\ Len(labels) = 2
    /\ loc.beta_prop # Last(betas)
    /\ loc.log_target_prev.lmd.coef = FreshCoef(Last(betas))
    /\ loc.log_target_prop.lmd.coef = FreshCoef(loc.beta_prop)
    /\ FreshCoef(loc.beta_prop) # FreshCoef(Last(betas))
    /\ FreshCoef(Last(betas)) # calc_labels_prob(calc_gibbs_energy(labels[1], Last(betas)).val)

\* r > 1 or u < r for the acceptance ratio of the block being decided
RuleAccepts(u) ==
    ~loc.acc_ratio.nan /\ (loc.acc_ratio.v > One \/ u < loc.acc_ratio.v)

\* the block's result is the committed proposal exactly when r > 1 or u < r
\* for a uniform draw u, and it is the kept value when r = 0
Decided(result, kept, proposed) ==
    /\ \E u \in UVals : result = IF RuleAccepts(u) THEN proposed ELSE kept
    /\ (~loc.acc_ratio.nan /\ loc.acc_ratio.v = 0) => result = kept

\* P(result, kept, proposed) for the block that the step decides
ForBlock(P(_, _, _)) ==
    /\ pc = "mu_accept" =>
         P(loc'.mu_next, loc.mu_next, [loc.mu_next EXCEPT ![loc.l] = loc.mu_prop[loc.l]])
    /\ pc = "cov_accept" =>
         P(loc'.cov_next, loc.cov_next, [loc.cov_next EXCEPT ![loc.l] = loc.cov_prop[loc.l]])
    /\ pc = "beta_accept" =>
         P(Last(betas'), Last(betas), loc.beta_prop)

AnyNotBelow(result, kept, proposed) ==
    /\ Decided(result, kept, proposed)
    /\ loc.acc_ratio.ge => result = proposed

NumberNotBelow(result, kept, proposed) ==
    /\ Decided(result, kept, proposed)
    /\ (loc.acc_ratio.ge /\ ~loc.acc_ratio.nan) => result = proposed

\* the claim as stated: every candidate whose log target is not below the
\* current one is accepted
C15_AnyTarget == [][ForBlock(AnyNotBelow)]_vars

\* C15: for each label's mean, each label's covariance and beta the proposal
\* is committed if and only if r > 1 or u < r for a uniform draw u; a
\* candidate with r = 0 is never accepted; a candidate whose log target is
\* not below the current one is always accepted, unless r is not a number.
C15_AcceptRule == [][ForBlock(NumberNotBelow)]_vars

\* an iteration has ended in which a beta proposal with r = 1/One, below 1,
\* was accepted and a covariance proposal was rejected
C15_Witness ==
    /\ pc = "fit" /\ g = 1 /\ n_labels = 1 /\ Len(betas) = 2 /\ Len(covs) = 2
    /\ ~loc.acc_ratio.nan /\ loc.acc_ratio.v = 1 /\ ~loc.acc_ratio.ge
    /\ betas[2] = loc.beta_prop /\ betas[2] # betas[1]
    /\ covs[2][0] = covs[1][0] /\ covs[2][0] # loc.cov_prop[0]
    /\ loc.log_target_prop.lp.at = loc.beta_prop

====
